---- MODULE Spec2Model ----
(***************************************************************************)
(* The WebSocket subscription registry and broadcaster of src/index.js:    *)
(* the two module-level maps orderClients / clientOrders, the Socket.IO    *)
(* rooms the handlers join and leave, broadcastOrderUpdate and             *)
(* broadcastGeneralUpdate, and the HTTP routes that call them.             *)
(*                                                                         *)
(* Node runs synchronous code to completion on one thread, so a handler    *)
(* without an await (and each call of broadcastOrderUpdate) is one action; *)
(* a handler with awaits is one action per stretch between two awaits, and *)
(* several such handlers are in flight at a time.  What a step writes to   *)
(* the connections is kept in `emitted` until the next step runs; how it   *)
(* ended is kept in `outcome`.                                             *)
(*                                                                         *)
(* Next is everything the server does.  The specifications that are model  *)
(* checked each follow the events of the sockets, 'get-order-status'       *)
(* among them, for some of the values a client can send, together with a   *)
(* part of the rest: the calls of the two broadcast functions, one HTTP    *)
(* route, the visits of the 'disconnect' handler's loop, or a run from a   *)
(* given past.                                                             *)
(***************************************************************************)
EXTENDS Integers, Sequences, FiniteSets, TLC

\* ---------------------------------------------------------------- bounds
MaxPublish  == 2    \* calls of broadcastOrderUpdate
MaxClock    == 1    \* largest reading of the wall clock
MaxObjects  == 2    \* objects and arrays stored as keys by 'subscribe-to-order'
MaxRequests == 2    \* HTTP requests of one route in flight at a time
MaxQueries  == 1    \* 'get-order-status' queries awaited at a time
MaxRouteSockets == 1 \* connections made while the requests of an HTTP route are followed

\* ---------------------------------------------------------------- values
\* socket.id of the n-th connection: Socket.IO gives every connection a fresh
\* id, so an id is never used again after its connection has closed.
SocketIds == <<"s1", "s2">>
Sockets == {SocketIds[i] : i \in DOMAIN SocketIds}

\* The orderId a client sends with 'subscribe-to-order' is any JSON value; the
\* HTTP routes pass strings.  type is the JavaScript type of the value and str
\* the text String(orderId) gives: the number 1 and the string "1" are two
\* different Map keys (SameValueZero) with the same text.  An object or an
\* array is a key by identity: ref tells the objects apart (0 for a primitive).
Primitives == { [type |-> "string", str |-> "1", ref |-> 0],
                [type |-> "number", str |-> "1", ref |-> 0],
                [type |-> "string", str |-> "2", ref |-> 0] }

\* The objects a client sends, by what String() makes of them: {"a":1} gives
\* "[object Object]", [1] gives "1", and for {"toString":null} it raises a
\* TypeError.
Unprintable == "TypeError"
ObjectTexts == {"[object Object]", "1", Unprintable}

\* The JSON texts of the objects a client can send.  Every event is parsed into
\* a new object, so what is sent has no identity yet.
JsonObjects == {[type |-> "object", str |-> s, ref |-> 0] : s \in ObjectTexts}

\* What a client can send: a primitive or the JSON text of an object.
JsonValues == Primitives \cup JsonObjects

\* The two primitives with the same text: the string "1", which the routes
\* use and a document is stored for, and the number 1.
SameTextIds == {v \in Primitives : v.str = "1"}

\* One value of each kind the handlers tell apart: a string, the number with the
\* same text, and the objects.
RegistryValues == SameTextIds \cup JsonObjects

\* The value the handler of an event receives: for an object sent, the n-th
\* object made.  Identity 0 is the object of an event that stores nothing: it
\* is no key of either Map.
Received(value, n) == IF value.type = "object" THEN [value EXCEPT !.ref = n] ELSE value

\* The keys orderClients can hold and the members clientOrders' Sets can have.
OrderIds ==
    Primitives \cup {[type |-> "object", str |-> s, ref |-> n] :
                        s \in ObjectTexts \ {Unprintable}, n \in 1..MaxObjects}

\* `order-${orderId}`: the template literal converts orderId with String().
RoomOf(orderId) == "order-" \o orderId.str

\* Every call of broadcastOrderUpdate in the repository passes a string: the
\* :orderId of the request path, or the `ECO-...` id create-order builds.
BroadcastOrderIds == {orderId \in Primitives : orderId.type = "string"}

\* updateData has no key orderId (every call in the repository), or has one.
NoOrderId == [type |-> "undefined", str |-> "undefined", ref |-> 0]
PayloadOrderIds == {NoOrderId, [type |-> "string", str |-> "2", ref |-> 0]}

\* Which emit of a broadcastOrderUpdate call raises, if any: the emit to one
\* socket id of Method 1, the room emit of Method 2, or none.
RoomEmit == "room-emit"
NoFault == "no-fault"
Faults == Sockets \cup {RoomEmit, NoFault}

VARIABLES
    connected,      \* io.sockets.sockets: ids of the live connections
    nextId,         \* index in SocketIds of the next connection's id
    nextRef,        \* number of objects stored as keys so far
    orderClients,   \* Map orderId -> Set of socket ids (in insertion order)
    clientOrders,   \* Map socket id -> Set of orderIds
    rooms,          \* adapter rooms: pairs <<socket id, room name>>
    emitted,        \* per connection: what the most recent handler wrote to it
    published,      \* number of broadcastOrderUpdate calls made
    call,           \* the most recent handler or call, with its arguments
    outcome,        \* how it ended: "returned" or "threw"
    request,        \* the HTTP requests of the route followed: where each stands
    statusQueries,  \* the 'get-order-status' events whose query is awaited
    deliveries,     \* the 'deliveries' collection: order id -> status written
    log,            \* per connection: the 'order-update' payloads written to it so far
    loop            \* the 'disconnect' handler's forEach: where it stands

vars == <<connected, nextId, nextRef, orderClients, clientOrders, rooms, emitted,
          published, call, outcome, request, statusQueries, deliveries, log, loop>>

\* The update-order route's variables, which the socket handlers and the two
\* broadcast functions never touch.
routeVars == <<request, deliveries>>

\* What is followed in the specification about it only: the route, the
\* 'order-update' payloads the connections were written over the calls, and
\* the steps of the 'disconnect' handler's loop.
scenarioVars == <<request, deliveries, log, loop, statusQueries>>

\* What the steps of the HTTP routes leave alone: the connections' logs, the
\* 'disconnect' loop and the queries of 'get-order-status'.
socketVars == <<log, loop, statusQueries>>

\* ------------------------------------------------------ JavaScript Map / Set
Range(s) == {s[i] : i \in DOMAIN s}

EmptyMap == [k \in {} |-> <<>>]
MapHas(m, k) == k \in DOMAIN m
MapSet(m, k, v) == [x \in DOMAIN m \cup {k} |-> IF x = k THEN v ELSE m[x]]
MapDelete(m, k) == [x \in DOMAIN m \ {k} |-> m[x]]

\* A Set of socket ids keeps insertion order (forEach visits in that order).
SetHas(s, x) == x \in Range(s)
SetAdd(s, x) == IF SetHas(s, x) THEN s ELSE Append(s, x)
SetDelete(s, x) == SelectSeq(s, LAMBDA y : y # x)

\* ------------------------------------------------------------- Socket.IO
Nothing == [h \in Sockets |-> <<>>]

\* emit to a room: the message is written to every socket that is in the room.
EmitToRoom(rms, em, room, msg) ==
    [h \in DOMAIN em |-> IF <<h, room>> \in rms THEN Append(em[h], msg) ELSE em[h]]

\* socket.emit: the message is written to this socket.
EmitToSocket(em, id, msg) == [em EXCEPT ![id] = Append(@, msg)]

\* The 'disconnect' handler has not run yet.
NoLoop == [pc |-> "none"]

\* No HTTP request is in flight.
NoRequest == [pc |-> "none"]
NoRequests == [r \in 1..MaxRequests |-> NoRequest]

\* The 'deliveries' collection when the server starts: a document for the
\* order "1", none for the order "2".
StoredDeliveries == [orderId \in {[type |-> "string", str |-> "1", ref |-> 0]} |-> "pending"]

Init ==
    /\ connected = {}
    /\ nextId = 1
    /\ nextRef = 0
    /\ orderClients = EmptyMap
    /\ clientOrders = EmptyMap
    /\ rooms = {}
    /\ emitted = Nothing
    /\ published = 0
    /\ call = [op |-> "none"]
    /\ outcome = "returned"
    /\ request = NoRequests
    /\ statusQueries = {}
    /\ deliveries = StoredDeliveries
    /\ log = Nothing
    /\ loop = NoLoop

\* io.on('connection'): a fresh socket, which Socket.IO puts in the room named
\* by its own id.
Connect ==
    /\ nextId <= Len(SocketIds)
    /\ connected' = connected \cup {SocketIds[nextId]}
    /\ rooms' = rooms \cup {<<SocketIds[nextId], SocketIds[nextId]>>}
    /\ nextId' = nextId + 1
    /\ emitted' = Nothing
    /\ call' = [op |-> "connection", id |-> SocketIds[nextId]]
    /\ outcome' = "returned"
    /\ UNCHANGED <<nextRef, orderClients, clientOrders, published>>

\* socket.on('subscribe-to-order')
\* Faulty variant, for sensitivity of the properties: the Map is rebuilt with the new entry only.
SubscribeOrderClientsOnly(oc, orderId, id) == MapSet(EmptyMap, orderId, <<id>>)

SubscribeOrderClients(oc, orderId, id) ==
    MapSet(oc, orderId, SetAdd(IF MapHas(oc, orderId) THEN oc[orderId] ELSE <<>>, id))

\* Faulty variant, for sensitivity of the properties: the handler adds to orderClients only.
SubscribeClientOrdersForgets(co, orderId, id) == co

SubscribeClientOrders(co, orderId, id) ==
    MapSet(co, id, (IF MapHas(co, id) THEN co[id] ELSE {}) \cup {orderId})

\* The handler starts with console.log(`... ${orderId}`): when String(orderId)
\* raises, the handler ends there and nothing has been touched.  An object
\* received is a new key.
Subscribe(id, value) ==
    /\ id \in connected
    /\ (value.type = "object" /\ value.str # Unprintable) => nextRef < MaxObjects
    /\ IF value.str = Unprintable
       THEN /\ emitted' = Nothing
            /\ call' = [op |-> "subscribe-to-order", id |-> id, orderId |-> value]
            /\ outcome' = "threw"
            /\ UNCHANGED <<nextRef, orderClients, clientOrders, rooms>>
       ELSE LET orderId == Received(value, nextRef + 1)
            IN  /\ orderClients' = SubscribeOrderClients(orderClients, orderId, id)
                /\ clientOrders' = SubscribeClientOrders(clientOrders, orderId, id)
                /\ rooms' = rooms \cup {<<id, RoomOf(orderId)>>}
                /\ emitted' = EmitToSocket(Nothing, id,
                                 [event |-> "subscription-confirmed", orderId |-> orderId])
                /\ call' = [op |-> "subscribe-to-order", id |-> id, orderId |-> orderId]
                /\ outcome' = "returned"
                /\ nextRef' = IF value.type = "object" THEN nextRef + 1 ELSE nextRef
    /\ UNCHANGED <<connected, nextId, published>>

\* socket.on('unsubscribe-from-order')
\* Faulty variant, for sensitivity of the properties: the subscriber set is left in the Map when it becomes empty.
UnsubscribeOrderClientsKeepsEmpty(oc, orderId, id) ==
    IF MapHas(oc, orderId) THEN MapSet(oc, orderId, SetDelete(oc[orderId], id)) ELSE oc

UnsubscribeOrderClients(oc, orderId, id) ==
    IF MapHas(oc, orderId)
    THEN LET left == SetDelete(oc[orderId], id)
         IN  IF Len(left) = 0 THEN MapDelete(oc, orderId) ELSE MapSet(oc, orderId, left)
    ELSE oc

\* Faulty variant, for sensitivity of the properties: the handler forgets clientOrders.get(socket.id).delete(orderId).
UnsubscribeClientOrdersForgets(co, orderId, id) == co

\* Faulty variant, for sensitivity of the properties: the client's entry is deleted when its Set becomes empty.
UnsubscribeClientOrdersPrunes(co, orderId, id) ==
    IF MapHas(co, id)
    THEN IF co[id] \ {orderId} = {} THEN MapDelete(co, id) ELSE MapSet(co, id, co[id] \ {orderId})
    ELSE co

UnsubscribeClientOrders(co, orderId, id) ==
    IF MapHas(co, id) THEN MapSet(co, id, co[id] \ {orderId}) ELSE co

\* The handler starts with console.log(`... ${orderId}`) as well.  An object
\* received is a new object, which is no key of either Map; the room it names
\* is left all the same.
Unsubscribe(id, value) ==
    /\ id \in connected
    /\ IF value.str = Unprintable
       THEN /\ emitted' = Nothing
            /\ call' = [op |-> "unsubscribe-from-order", id |-> id, orderId |-> value]
            /\ outcome' = "threw"
            /\ UNCHANGED <<orderClients, clientOrders, rooms>>
       ELSE LET orderId == Received(value, 0)
            IN  /\ orderClients' = UnsubscribeOrderClients(orderClients, orderId, id)
                /\ clientOrders' = UnsubscribeClientOrders(clientOrders, orderId, id)
                /\ rooms' = rooms \ {<<id, RoomOf(orderId)>>}
                /\ emitted' = EmitToSocket(Nothing, id,
                                 [event |-> "unsubscription-confirmed", orderId |-> orderId])
                /\ call' = [op |-> "unsubscribe-from-order", id |-> id, orderId |-> orderId]
                /\ outcome' = "returned"
    /\ UNCHANGED <<connected, nextId, nextRef, published>>

\* socket.on('disconnect'): the forEach over the client's orderIds.  Each visit
\* touches only the entry of its own orderId, so the order of the visits does
\* not change the result.
\* Faulty variant, for sensitivity of the properties: the entries of the client's orders are deleted whole.
DisconnectCleanupDropsOrders(oc, orderIds, id) == [x \in DOMAIN oc \ orderIds |-> oc[x]]

RECURSIVE DisconnectCleanup(_, _, _)
DisconnectCleanup(oc, orderIds, id) ==
    IF orderIds = {} THEN oc
    ELSE LET orderId == CHOOSE o \in orderIds : TRUE
         IN  DisconnectCleanup(UnsubscribeOrderClients(oc, orderId, id),
                               orderIds \ {orderId}, id)

DisconnectOrderClients(oc, co, id) ==
    IF MapHas(co, id) THEN DisconnectCleanup(oc, co[id], id) ELSE oc

\* Faulty variant, for sensitivity of the properties: the handler empties clientOrders.
DisconnectClientOrdersClears(co, id) == EmptyMap

DisconnectClientOrders(co, id) ==
    IF MapHas(co, id) THEN MapDelete(co, id) ELSE co

\* Socket.IO closes the connection (the socket leaves every room and its id
\* leaves io.sockets.sockets) and then runs the 'disconnect' handler.
Disconnect(id) ==
    /\ id \in connected
    /\ connected' = connected \ {id}
    /\ rooms' = {p \in rooms : p[1] # id}
    /\ orderClients' = DisconnectOrderClients(orderClients, clientOrders, id)
    /\ clientOrders' = DisconnectClientOrders(clientOrders, id)
    /\ emitted' = Nothing
    /\ call' = [op |-> "disconnect", id |-> id]
    /\ outcome' = "returned"
    /\ UNCHANGED <<nextId, nextRef, published>>

\* The object given to emit: { orderId, ...updateData, timestamp: new Date() }.
\* A key orderId of updateData replaces the argument; the timestamp, written
\* last, replaces a key timestamp of updateData.  updateData.n is the number
\* of the call and stands for the rest of the payload.
OrderUpdate(orderId, updateData, timestamp) ==
    [event |-> "order-update",
     orderId |-> IF updateData.orderId = NoOrderId THEN orderId ELSE updateData.orderId,
     data |-> updateData.n,
     timestamp |-> timestamp]

\* Method 1: subscribedClients.forEach(socketId => io.to(socketId).emit(...)),
\* from the i-th subscriber on.  now[i] is what new Date() gives in the i-th
\* visit.  Nothing catches an emit that raises: the exception ends the forEach.
RECURSIVE Method1(_, _, _, _, _, _, _, _)
Method1(subscribedClients, i, rms, em, orderId, updateData, now, fault) ==
    IF i > Len(subscribedClients) THEN [emitted |-> em, threw |-> FALSE]
    ELSE IF fault = subscribedClients[i] THEN [emitted |-> em, threw |-> TRUE]
    ELSE Method1(subscribedClients, i + 1, rms,
                 EmitToRoom(rms, em, subscribedClients[i],
                            OrderUpdate(orderId, updateData, now[i])),
                 orderId, updateData, now, fault)

\* Method 2: io.to(`order-${orderId}`).emit(...), reached when Method 1 ended
\* normally.
Method2(r, rms, orderId, updateData, timestamp, fault) ==
    IF r.threw THEN r
    ELSE IF fault = RoomEmit THEN [emitted |-> r.emitted, threw |-> TRUE]
    ELSE [emitted |-> EmitToRoom(rms, r.emitted, RoomOf(orderId),
                                 OrderUpdate(orderId, updateData, timestamp)),
          threw |-> FALSE]

\* orderClients.get(orderId), empty when orderClients.has(orderId) is false.
Subscribers(oc, orderId) == IF MapHas(oc, orderId) THEN oc[orderId] ELSE <<>>

\* Faulty variant, for sensitivity of the properties: the number of orders, orderClients.size, is reported.
SubscriberCountOfMap(oc, orderId) == Cardinality(DOMAIN oc)

\* subs?.size ?? 0, the number the call logs.
SubscriberCount(oc, orderId) == IF MapHas(oc, orderId) THEN Len(oc[orderId]) ELSE 0

\* orderClients.get(orderId)?.size || 0, the subscribedClients field of the
\* websocket test endpoint's response.
SubscribedClients(oc, orderId) ==
    IF MapHas(oc, orderId) /\ Len(oc[orderId]) # 0 THEN Len(oc[orderId]) ELSE 0

BroadcastOrderUpdate(oc, rms, orderId, updateData, now, fault) ==
    LET subscribedClients == Subscribers(oc, orderId)
    IN  Method2(Method1(subscribedClients, 1, rms, Nothing, orderId, updateData,
                        now, fault),
                rms, orderId, updateData, now[Len(subscribedClients) + 1], fault)

\* The readings of the clock during one call, one new Date() per emit.  The
\* wall clock can be set back between two readings.
ClockReadings(n) == [1..n -> 0..MaxClock]

\* The updateData of the call after `n` calls, with or without a key orderId.
UpdateData(n, payloadOrderId) == [n |-> n + 1, orderId |-> payloadOrderId]

\* A call broadcastOrderUpdate(orderId, updateData).
Publish(orderId, payloadOrderId, fault) ==
    /\ published < MaxPublish
    /\ fault \in Range(Subscribers(orderClients, orderId)) \cup {RoomEmit, NoFault}
    /\ \E now \in ClockReadings(Len(Subscribers(orderClients, orderId)) + 1) :
          LET r == BroadcastOrderUpdate(orderClients, rooms, orderId,
                                        UpdateData(published, payloadOrderId), now, fault)
          IN  /\ emitted' = r.emitted
              /\ outcome' = IF r.threw THEN "threw" ELSE "returned"
    /\ published' = published + 1
    /\ call' = [op |-> "broadcastOrderUpdate", orderId |-> orderId, fault |-> fault,
                updateData |-> UpdateData(published, payloadOrderId)]
    /\ UNCHANGED <<connected, nextId, nextRef, orderClients, clientOrders, rooms>>

\* ------------------------------------------------- broadcastGeneralUpdate
\* The `type` of the data the two callers pass: create-order and the
\* broadcast-test endpoint.
GeneralTypes == {"new-order", "test-broadcast"}

\* The object given to emit: { ...data, timestamp: new Date() }.
GeneralUpdate(data, timestamp) ==
    [event |-> "general-update", data |-> data, timestamp |-> timestamp]

\* io.emit: the message is written to every connected socket.
EmitToAll(conn, em, msg) ==
    [h \in DOMAIN em |-> IF h \in conn THEN Append(em[h], msg) ELSE em[h]]

\* The one io.emit of the function; nothing catches it when it raises.
BroadcastGeneralUpdate(conn, data, timestamp, raises) ==
    IF raises THEN [emitted |-> Nothing, threw |-> TRUE]
    ELSE [emitted |-> EmitToAll(conn, Nothing, GeneralUpdate(data, timestamp)),
          threw |-> FALSE]

\* A call broadcastGeneralUpdate(data).
PublishBroadcast(data, raises) ==
    /\ \E timestamp \in 0..MaxClock :
          LET r == BroadcastGeneralUpdate(connected, data, timestamp, raises)
          IN  /\ emitted' = r.emitted
              /\ outcome' = IF r.threw THEN "threw" ELSE "returned"
    /\ call' = [op |-> "broadcastGeneralUpdate", data |-> data, raises |-> raises]
    /\ UNCHANGED <<connected, nextId, nextRef, orderClients, clientOrders, rooms, published>>

\* ----------------------------------------------------- the HTTP requests
\* Express starts a handler for every request that arrives, so several requests
\* of a route are in flight at a time, each at an await of its own.  request
\* holds them by number; a number is taken again once its request is answered.
RequestIds == 1..MaxRequests
InFlight(req) == req.pc \notin {"none", "done"}

\* The number the next request gets: the lowest one that is not in flight.
NextRequest(r) ==
    /\ r \in RequestIds
    /\ ~InFlight(request[r])
    /\ \A q \in 1..(r - 1) : InFlight(request[q])

\* ------------------------------- PUT /api/ecommerce/update-order/:orderId
\* req.body.status: absent ("" stands for every falsy value) or a status.
RequestStatuses == {"", "delivered", "pickup-ready"}

\* The statuses whose customer notification reads
\* deliveryData.deliveryAddress.street or .phone (lines 709-730).
ReadsDeliveryAddress(status) ==
    status \in {"confirmed", "picked-up", "in-progress", "delivered", "failed"}

Responded(req, code) == [pc |-> "done", orderId |-> req.orderId, status |-> req.status,
                         code |-> code]
Awaiting(req, pc) == [pc |-> pc, orderId |-> req.orderId, status |-> req.status]

\* if (!status) return res.status(400); otherwise the deliveries query is sent.
RouteAfterValidate(req) ==
    IF req.status = "" THEN Responded(req, 400) ELSE Awaiting(req, "query")

\* What the database makes of the deliveries query at the time it evaluates
\* it: it rejects it, or answers with the documents that have the id then.
QuerySnapshot(docs, orderId, rejects) ==
    IF rejects THEN "rejected" ELSE IF MapHas(docs, orderId) THEN "found" ELSE "empty"

\* The request whose query the database has evaluated; its promise has not
\* settled yet.
Evaluated(req, snapshot) ==
    [pc |-> "queried", orderId |-> req.orderId, status |-> req.status,
     snapshot |-> snapshot]

\* Faulty variant, for sensitivity of the properties: the route goes on to the broadcast without the document update.
RouteAfterQuerySkipsUpdate(req, snapshot) ==
    IF snapshot = "rejected" THEN Responded(req, 500)
    ELSE IF snapshot = "empty" THEN Responded(req, 404)
    ELSE Awaiting(req, "written")

\* The deliveries query has settled: rejected (the catch answers 500), empty
\* (404), or a document, whose update is sent.  The handler sees what the
\* query saw, whatever the collection holds by now.
RouteAfterQuery(req, snapshot) ==
    IF snapshot = "rejected" THEN Responded(req, 500)
    ELSE IF snapshot = "empty" THEN Responded(req, 404)
    ELSE Awaiting(req, "update")

\* After broadcastOrderUpdate: an exception goes to the catch (500); without a
\* customer email the route answers 200; with one the notification is built,
\* which for most statuses reads deliveryData.deliveryAddress.street, a
\* TypeError (caught: 500) when the document has no deliveryAddress, and is
\* then added.
RouteAfterBroadcast(req, threw, hasEmail, hasAddress) ==
    IF threw THEN Responded(req, 500)
    ELSE IF ~hasEmail THEN Responded(req, 200)
    ELSE IF ReadsDeliveryAddress(req.status) /\ ~hasAddress THEN Responded(req, 500)
    ELSE Awaiting(req, "notify")

\* A step of request r of the route that writes nothing to the sockets.
RouteStep(r) ==
    /\ emitted' = Nothing
    /\ call' = [op |-> "update-order", r |-> r]
    /\ outcome' = "returned"
    /\ UNCHANGED <<connected, nextId, nextRef, orderClients, clientOrders, rooms, published>>

\* The update-order requests in flight that have their broadcast still to make.
ToBroadcast ==
    {r \in RequestIds : request[r].pc \in {"query", "queried", "update", "written"}}

\* The request arrives; the handler runs up to its first await.
UpdateOrderReceive(r, orderId, status) ==
    /\ NextRequest(r)
    /\ published + Cardinality(ToBroadcast) < MaxPublish
    /\ request' = [request EXCEPT
                      ![r] = RouteAfterValidate([orderId |-> orderId, status |-> status])]
    /\ RouteStep(r)
    /\ UNCHANGED deliveries

\* db.collection('deliveries').where('id', '==', orderId).limit(1).get(): the
\* database evaluates the query of request r; no handler runs.
UpdateOrderEvaluated(r, rejects) ==
    /\ request[r].pc = "query"
    /\ request' = [request EXCEPT
                      ![r] = Evaluated(@, QuerySnapshot(deliveries, @.orderId, rejects))]
    /\ UNCHANGED <<connected, nextId, nextRef, orderClients, clientOrders, rooms, emitted,
                   published, call, outcome, deliveries>>

\* The promise of the query has settled and the handler resumes after the
\* await, with what the query saw.
UpdateOrderQueried(r) ==
    /\ request[r].pc = "queried"
    /\ request' = [request EXCEPT ![r] = RouteAfterQuery(@, @.snapshot)]
    /\ RouteStep(r)
    /\ UNCHANGED deliveries

\* await deliveryDoc.ref.update(updateData): Firestore writes the document;
\* no handler runs, the request stays at its await ...
UpdateOrderWritten(r) ==
    /\ request[r].pc = "update"
    /\ deliveries' = MapSet(deliveries, request[r].orderId, request[r].status)
    /\ request' = [request EXCEPT ![r] = Awaiting(@, "written")]
    /\ UNCHANGED <<connected, nextId, nextRef, orderClients, clientOrders, rooms, emitted,
                   published, call, outcome>>

\* ... or the update is rejected and the catch answers 500.
UpdateOrderUpdateFails(r) ==
    /\ request[r].pc = "update"
    /\ request' = [request EXCEPT ![r] = Responded(@, 500)]
    /\ RouteStep(r)
    /\ UNCHANGED deliveries

\* The handler resumes after the update: broadcastOrderUpdate(orderId,
\* wsUpdateData), whose wsUpdateData has no key orderId, then the customer
\* notification if the document has an email.
UpdateOrderBroadcast(r, fault, hasEmail, hasAddress) ==
    /\ request[r].pc = "written"
    /\ Publish(request[r].orderId, NoOrderId, fault)
    /\ request' = [request EXCEPT
                      ![r] = RouteAfterBroadcast(@, outcome' = "threw", hasEmail, hasAddress)]
    /\ UNCHANGED deliveries

\* await db.collection('user_notifications').add(...), then res.status(200).
UpdateOrderNotified(r, rejects) ==
    /\ request[r].pc = "notify"
    /\ request' = [request EXCEPT ![r] = Responded(@, IF rejects THEN 500 ELSE 200)]
    /\ RouteStep(r)
    /\ UNCHANGED deliveries

\* --------------------------------------- POST /api/ecommerce/create-order
\* A step of another route that writes nothing to the sockets.
QuietStep(op) ==
    /\ emitted' = Nothing
    /\ call' = [op |-> op]
    /\ outcome' = "returned"
    /\ UNCHANGED <<connected, nextId, nextRef, orderClients, clientOrders, rooms, published>>

\* What one handler wrote to each connection by two emits in a row.
Concat(em1, em2) == [h \in Sockets |-> em1[h] \o em2[h]]

\* Faulty variant, for sensitivity of the properties: the general broadcast is left out.
CreateOrderBroadcastsOrderOnly(oc, rms, conn, orderId, updateData, now, fault, raises) ==
    LET r == BroadcastOrderUpdate(oc, rms, orderId, updateData, now, fault)
    IN  [emitted |-> r.emitted, threw |-> r.threw, called |-> <<"broadcastOrderUpdate">>]

\* broadcastOrderUpdate(orderId, {type: 'order-created', ...}) and then
\* broadcastGeneralUpdate({type: 'new-order', ...}); an exception of the first
\* goes to the catch before the second is called.  now holds the clock readings
\* of the emits, the last one being the general broadcast's.
CreateOrderBroadcasts(oc, rms, conn, orderId, updateData, now, fault, raises) ==
    LET r1 == BroadcastOrderUpdate(oc, rms, orderId, updateData, now, fault)
    IN  IF r1.threw
        THEN [emitted |-> r1.emitted, threw |-> TRUE, called |-> <<"broadcastOrderUpdate">>]
        ELSE LET r2 == BroadcastGeneralUpdate(conn, "new-order", now[Len(now)], raises)
             IN  [emitted |-> Concat(r1.emitted, r2.emitted), threw |-> r2.threw,
                  called |-> <<"broadcastOrderUpdate", "broadcastGeneralUpdate">>]

\* The response of a create-order request, with the broadcast functions the
\* handler has called.
Created(orderId, code, called) ==
    [pc |-> "done", orderId |-> orderId, code |-> code, called |-> called]

\* The create-order requests in flight: each has its broadcasts still to make.
ToCreate == {r \in RequestIds : request[r].pc \in {"add", "added"}}

\* `ECO-${Date.now()}-${random}`: the string made from the two readings.  The
\* route compares it with nothing: two requests that get the same readings
\* make the same id, and so does a request whose readings a stored order had.
CreateOrderIds == {[type |-> "string", str |-> "ECO-2", ref |-> 0],
                   [type |-> "string", str |-> "ECO-3", ref |-> 0]}

\* The request arrives: 400 when a required field is missing; otherwise the
\* order id is made and the document is sent to the deliveries collection.
CreateOrderReceive(r, orderId, valid) ==
    /\ NextRequest(r)
    /\ published + Cardinality(ToCreate) < MaxPublish
    /\ request' = [request EXCEPT
                      ![r] = IF valid THEN [pc |-> "add", orderId |-> orderId]
                             ELSE Created(orderId, 400, <<>>)]
    /\ QuietStep("create-order")
    /\ UNCHANGED deliveries

\* await db.collection('deliveries').add(deliveryData): the database stores
\* the document (next to the documents that have the same id already, all
\* 'pending'); no handler runs, the request stays at its await ...
CreateOrderAdded(r) ==
    /\ request[r].pc = "add"
    /\ deliveries' = MapSet(deliveries, request[r].orderId, "pending")
    /\ request' = [request EXCEPT ![r] = [pc |-> "added", orderId |-> @.orderId]]
    /\ UNCHANGED <<connected, nextId, nextRef, orderClients, clientOrders, rooms, emitted,
                   published, call, outcome>>

\* ... or the add is rejected and the catch answers 500.
CreateOrderAddFails(r) ==
    /\ request[r].pc = "add"
    /\ request' = [request EXCEPT ![r] = Created(@.orderId, 500, <<>>)]
    /\ QuietStep("create-order")
    /\ UNCHANGED deliveries

\* The handler resumes after the add: the two broadcasts, whose payloads have
\* no key orderId of their own to replace the argument, then the response.
CreateOrderBroadcast(r, fault, raises) ==
    /\ request[r].pc = "added"
    /\ published < MaxPublish
    /\ fault \in Range(Subscribers(orderClients, request[r].orderId)) \cup {RoomEmit, NoFault}
    /\ \E now \in ClockReadings(Len(Subscribers(orderClients, request[r].orderId)) + 2) :
          LET res == CreateOrderBroadcasts(orderClients, rooms, connected,
                                           request[r].orderId,
                                           UpdateData(published, NoOrderId),
                                           now, fault, raises)
          IN  /\ emitted' = res.emitted
              /\ outcome' = IF res.threw THEN "threw" ELSE "returned"
              /\ request' = [request EXCEPT
                                ![r] = Created(@.orderId, IF res.threw THEN 500 ELSE 200,
                                               res.called)]
    /\ published' = published + 1
    /\ call' = [op |-> "create-order", orderId |-> request[r].orderId, fault |-> fault,
                raises |-> raises]
    /\ UNCHANGED <<connected, nextId, nextRef, orderClients, clientOrders, rooms, deliveries>>

\* ------------------------------------------ POST /api/notify-user-delivery
\* req.body: userId and status absent ("" stands for every falsy value) or
\* given; deliveryData.id absent, a string, or a truthy value of another type
\* (a number, say), which has no substring method.
NotifyUserIds == {"", "u1"}
NotifyStatuses == {"", "in-progress", "delivered"}
DeliveryIdTypes == {"absent", "string", "other"}

\* ['delivered', 'failed'].includes(status)
ShouldNotifyAdmin(status) == status \in {"delivered", "failed"}

\* The state of a notify-user-delivery request: the records it has added so
\* far, and whether one of its adds was rejected.
Notifying(req, pc, persisted) ==
    [pc |-> pc, userId |-> req.userId, status |-> req.status, idType |-> req.idType,
     persisted |-> persisted, rejected |-> FALSE]
Notified(req, code, persisted, rejected) ==
    [pc |-> "done", userId |-> req.userId, status |-> req.status, idType |-> req.idType,
     persisted |-> persisted, rejected |-> rejected, code |-> code]

\* if (!userId || !status) return res.status(400); otherwise the user
\* notification is sent to the user_notifications collection.
NotifyAfterValidate(req) ==
    IF req.userId = "" \/ req.status = "" THEN Notified(req, 400, <<>>, FALSE)
    ELSE Notifying(req, "user-add", <<>>)

\* After the user notification has been added: for 'delivered' and 'failed'
\* the admin notification is built, whose body evaluates
\* deliveryData?.id?.substring(0, 8), a TypeError (caught: 500) when the id is
\* neither absent nor a string, and is sent to admin_notifications; for any
\* other status the route answers 200.
NotifyAfterUserAdd(req) ==
    LET persisted == Append(req.persisted, "user_notifications")
    IN  IF ~ShouldNotifyAdmin(req.status) THEN Notified(req, 200, persisted, FALSE)
        ELSE IF req.idType = "other" THEN Notified(req, 500, persisted, FALSE)
        ELSE Notifying(req, "admin-add", persisted)

NotifyReceive(r, userId, status, idType) ==
    /\ NextRequest(r)
    /\ request' = [request EXCEPT
                      ![r] = NotifyAfterValidate([userId |-> userId, status |-> status,
                                                  idType |-> idType])]
    /\ QuietStep("notify-user-delivery")
    /\ UNCHANGED deliveries

\* await db.collection('user_notifications').add(...) has settled.
NotifyUserAdded(r, rejects) ==
    /\ request[r].pc = "user-add"
    /\ request' = [request EXCEPT
                      ![r] = IF rejects THEN Notified(@, 500, @.persisted, TRUE)
                             ELSE NotifyAfterUserAdd(@)]
    /\ QuietStep("notify-user-delivery")
    /\ UNCHANGED deliveries

\* await db.collection('admin_notifications').add(...) has settled.
NotifyAdminAdded(r, rejects) ==
    /\ request[r].pc = "admin-add"
    /\ request' = [request EXCEPT
                      ![r] = IF rejects THEN Notified(@, 500, @.persisted, TRUE)
                             ELSE Notified(@, 200,
                                           Append(@.persisted, "admin_notifications"), FALSE)]
    /\ QuietStep("notify-user-delivery")
    /\ UNCHANGED deliveries

\* -------------------------------------------- socket.on('get-order-status')
\* The orderIds asked about: any JSON value; the handler does not convert it
\* to text.  The query compares with ==, so only a string finds a document.
StatusOrderIds == Primitives

\* The order asked about where the collection is not what a relation is about.
AskedOrderIds == {v \in Primitives : v.type = "string" /\ v.str = "1"}

\* The query has been sent and the database has not evaluated it yet.
NoAnswer == [event |-> "none"]

\* What the handler emits when its query has settled: the status of the
\* document the query found, or an error when it found none or was rejected.
OrderStatusAnswer(docs, orderId, rejects) ==
    IF ~rejects /\ MapHas(docs, orderId)
    THEN [event |-> "order-status-response", orderId |-> orderId, status |-> docs[orderId]]
    ELSE [event |-> "order-status-error", orderId |-> orderId]

\* The event arrives: the handler sends the deliveries query and awaits it.
GetOrderStatus(id, orderId) ==
    /\ id \in connected
    /\ Cardinality(statusQueries) < MaxQueries
    /\ \A query \in statusQueries : <<query.id, query.orderId>> # <<id, orderId>>
    /\ statusQueries' = statusQueries \cup {[id |-> id, orderId |-> orderId, answer |-> NoAnswer]}
    /\ emitted' = Nothing
    /\ call' = [op |-> "get-order-status", id |-> id, orderId |-> orderId]
    /\ outcome' = "returned"
    /\ UNCHANGED <<connected, nextId, nextRef, orderClients, clientOrders, rooms, published>>

\* The database evaluates the query, or fails to: the answer is what the
\* collection holds at this moment, whatever is written to it before the
\* promise settles.  No handler takes part.
OrderStatusEvaluated(query, rejects) ==
    /\ query \in statusQueries
    /\ query.answer = NoAnswer
    /\ statusQueries' = (statusQueries \ {query}) \cup
          {[query EXCEPT !.answer = OrderStatusAnswer(deliveries, query.orderId, rejects)]}
    /\ UNCHANGED <<connected, nextId, nextRef, orderClients, clientOrders, rooms, emitted,
                   published, call, outcome>>

\* The promise of the query has settled and the handler resumes: socket.emit
\* of what the query saw, on the socket that asked, connected or not by now.
OrderStatusQueried(query) ==
    /\ query \in statusQueries
    /\ query.answer # NoAnswer
    /\ statusQueries' = statusQueries \ {query}
    /\ emitted' = EmitToSocket(Nothing, query.id, query.answer)
    /\ call' = [op |-> "order-status", id |-> query.id, orderId |-> query.orderId]
    /\ outcome' = "returned"
    /\ UNCHANGED <<connected, nextId, nextRef, orderClients, clientOrders, rooms, published>>

\* Everything the server does: the sockets' events, the calls of the two
\* exported broadcast functions, and the steps of the HTTP routes.
Next ==
    \/ Connect /\ UNCHANGED scenarioVars
    \/ \E id \in Sockets, value \in JsonValues : Subscribe(id, value)
          /\ UNCHANGED scenarioVars
    \/ \E id \in Sockets, value \in JsonValues : Unsubscribe(id, value)
          /\ UNCHANGED scenarioVars
    \/ \E id \in Sockets : Disconnect(id)
          /\ UNCHANGED scenarioVars
    \/ \E id \in Sockets, orderId \in StatusOrderIds : GetOrderStatus(id, orderId)
          /\ UNCHANGED <<routeVars, log, loop>>
    \/ \E query \in statusQueries, rejects \in BOOLEAN : OrderStatusEvaluated(query, rejects)
          /\ UNCHANGED <<routeVars, log, loop>>
    \/ \E query \in statusQueries : OrderStatusQueried(query)
          /\ UNCHANGED <<routeVars, log, loop>>
    \/ \E orderId \in BroadcastOrderIds, payloadOrderId \in PayloadOrderIds, fault \in Faults :
          Publish(orderId, payloadOrderId, fault)
          /\ UNCHANGED scenarioVars
    \/ \E data \in GeneralTypes, raises \in BOOLEAN : PublishBroadcast(data, raises)
          /\ UNCHANGED scenarioVars
    \/ \E r \in RequestIds, orderId \in BroadcastOrderIds, status \in RequestStatuses :
          UpdateOrderReceive(r, orderId, status) /\ UNCHANGED socketVars
    \/ \E r \in RequestIds, rejects \in BOOLEAN :
          UpdateOrderEvaluated(r, rejects) /\ UNCHANGED socketVars
    \/ \E r \in RequestIds : UpdateOrderQueried(r) /\ UNCHANGED socketVars
    \/ \E r \in RequestIds : UpdateOrderWritten(r) /\ UNCHANGED socketVars
    \/ \E r \in RequestIds : UpdateOrderUpdateFails(r) /\ UNCHANGED socketVars
    \/ \E r \in RequestIds, fault \in Faults, hasEmail \in BOOLEAN, hasAddress \in BOOLEAN :
          UpdateOrderBroadcast(r, fault, hasEmail, hasAddress) /\ UNCHANGED socketVars
    \/ \E r \in RequestIds, rejects \in BOOLEAN :
          UpdateOrderNotified(r, rejects) /\ UNCHANGED socketVars
    \/ \E r \in RequestIds, orderId \in CreateOrderIds, valid \in BOOLEAN :
          CreateOrderReceive(r, orderId, valid) /\ UNCHANGED socketVars
    \/ \E r \in RequestIds : CreateOrderAdded(r) /\ UNCHANGED socketVars
    \/ \E r \in RequestIds : CreateOrderAddFails(r) /\ UNCHANGED socketVars
    \/ \E r \in RequestIds, fault \in Faults, raises \in BOOLEAN :
          CreateOrderBroadcast(r, fault, raises) /\ UNCHANGED socketVars
    \/ \E r \in RequestIds, userId \in NotifyUserIds, status \in NotifyStatuses,
             idType \in DeliveryIdTypes :
          NotifyReceive(r, userId, status, idType) /\ UNCHANGED socketVars
    \/ \E r \in RequestIds, rejects \in BOOLEAN :
          NotifyUserAdded(r, rejects) /\ UNCHANGED socketVars
    \/ \E r \in RequestIds, rejects \in BOOLEAN :
          NotifyAdminAdded(r, rejects) /\ UNCHANGED socketVars

Spec == Init /\ [][Next]_vars

\* ------------------------------------------------------------ the registry
\* The events of the sockets: the four handlers that read and write
\* orderClients and clientOrders, for every kind of JSON value a client can
\* send as orderId, and 'get-order-status', asked about the stored order "1".
NextRegistry ==
    \/ Connect /\ UNCHANGED scenarioVars
    \/ \E id \in Sockets, value \in RegistryValues : Subscribe(id, value)
          /\ UNCHANGED scenarioVars
    \/ \E id \in Sockets, value \in RegistryValues : Unsubscribe(id, value)
          /\ UNCHANGED scenarioVars
    \/ \E id \in Sockets : Disconnect(id)
          /\ UNCHANGED scenarioVars
    \/ \E id \in Sockets, orderId \in AskedOrderIds :
          GetOrderStatus(id, orderId) /\ UNCHANGED <<routeVars, log, loop>>
    \/ \E query \in statusQueries, rejects \in BOOLEAN :
          OrderStatusEvaluated(query, rejects) /\ UNCHANGED <<routeVars, log, loop>>
    \/ \E query \in statusQueries :
          OrderStatusQueried(query) /\ UNCHANGED <<routeVars, log, loop>>

SpecRegistry == Init /\ [][NextRegistry]_vars

\* ---------------------------------------------------------- the broadcasts
\* The events of the sockets, with the string "1" and the number 1 as orderId
\* and 'get-order-status' asked about the stored order "1", and the calls of
\* the two exported broadcast functions at any time, for either order.
NextBroadcast ==
    \/ Connect /\ UNCHANGED scenarioVars
    \/ \E id \in Sockets, value \in SameTextIds : Subscribe(id, value)
          /\ UNCHANGED scenarioVars
    \/ \E id \in Sockets, value \in SameTextIds : Unsubscribe(id, value)
          /\ UNCHANGED scenarioVars
    \/ \E id \in Sockets : Disconnect(id)
          /\ UNCHANGED scenarioVars
    \/ \E orderId \in BroadcastOrderIds, payloadOrderId \in PayloadOrderIds, fault \in Faults :
          Publish(orderId, payloadOrderId, fault)
          /\ UNCHANGED scenarioVars
    \/ \E data \in GeneralTypes, raises \in BOOLEAN : PublishBroadcast(data, raises)
          /\ UNCHANGED scenarioVars
    \/ \E id \in Sockets, orderId \in AskedOrderIds :
          GetOrderStatus(id, orderId) /\ UNCHANGED <<routeVars, log, loop>>
    \/ \E query \in statusQueries, rejects \in BOOLEAN :
          OrderStatusEvaluated(query, rejects) /\ UNCHANGED <<routeVars, log, loop>>
    \/ \E query \in statusQueries :
          OrderStatusQueried(query) /\ UNCHANGED <<routeVars, log, loop>>

SpecBroadcast == Init /\ [][NextBroadcast]_vars

\* ------------------------------------------- after an unsubscribe-from-order
\* The state after socket s1 has connected, subscribed to the order "1" and
\* unsubscribed from it again, and what can follow as long as s1 does not
\* subscribe to the order "1" again: the events of the sockets,
\* 'get-order-status' among them, and the calls of the two broadcast functions.
Order1 == [type |-> "string", str |-> "1", ref |-> 0]

InitAfterUnsubscribe ==
    /\ connected = {"s1"}
    /\ nextId = 2
    /\ nextRef = 0
    /\ orderClients = UnsubscribeOrderClients(
                          SubscribeOrderClients(EmptyMap, Order1, "s1"), Order1, "s1")
    /\ clientOrders = UnsubscribeClientOrders(
                          SubscribeClientOrders(EmptyMap, Order1, "s1"), Order1, "s1")
    /\ rooms = ({<<"s1", "s1">>} \cup {<<"s1", RoomOf(Order1)>>}) \ {<<"s1", RoomOf(Order1)>>}
    /\ emitted = EmitToSocket(Nothing, "s1",
                     [event |-> "unsubscription-confirmed", orderId |-> Order1])
    /\ published = 0
    /\ call = [op |-> "unsubscribe-from-order", id |-> "s1", orderId |-> Order1]
    /\ outcome = "returned"
    /\ request = NoRequests
    /\ statusQueries = {}
    /\ deliveries = StoredDeliveries
    /\ log = Nothing
    /\ loop = NoLoop

NextUntilResubscribe ==
    \/ Connect /\ UNCHANGED scenarioVars
    \/ \E id \in Sockets, value \in Primitives :
          /\ <<id, value>> # <<"s1", Order1>>
          /\ Subscribe(id, value)
          /\ UNCHANGED scenarioVars
    \/ \E id \in Sockets, value \in Primitives : Unsubscribe(id, value)
          /\ UNCHANGED scenarioVars
    \/ \E id \in Sockets : Disconnect(id)
          /\ UNCHANGED scenarioVars
    \/ \E orderId \in BroadcastOrderIds, fault \in Faults :
          Publish(orderId, NoOrderId, fault)
          /\ UNCHANGED scenarioVars
    \/ \E data \in GeneralTypes, raises \in BOOLEAN : PublishBroadcast(data, raises)
          /\ UNCHANGED scenarioVars
    \/ \E id \in Sockets, orderId \in StatusOrderIds :
          GetOrderStatus(id, orderId) /\ UNCHANGED <<routeVars, log, loop>>
    \/ \E query \in statusQueries, rejects \in BOOLEAN :
          OrderStatusEvaluated(query, rejects) /\ UNCHANGED <<routeVars, log, loop>>
    \/ \E query \in statusQueries :
          OrderStatusQueried(query) /\ UNCHANGED <<routeVars, log, loop>>

SpecAfterUnsubscribe == InitAfterUnsubscribe /\ [][NextUntilResubscribe]_vars

\* ------------------------------------------- a socket that never subscribes
\* The events of the sockets, 'get-order-status' among them, and the calls of
\* the two broadcast functions, as long as the first connection, s1, never sends
\* 'subscribe-to-order': its 'disconnect' handler finds no clientOrders entry.
NextNeverSubscribed ==
    \/ Connect /\ UNCHANGED scenarioVars
    \/ \E id \in Sockets \ {"s1"}, value \in Primitives : Subscribe(id, value)
          /\ UNCHANGED scenarioVars
    \/ \E id \in Sockets, value \in Primitives : Unsubscribe(id, value)
          /\ UNCHANGED scenarioVars
    \/ \E id \in Sockets : Disconnect(id)
          /\ UNCHANGED scenarioVars
    \/ \E orderId \in BroadcastOrderIds, fault \in Faults :
          Publish(orderId, NoOrderId, fault)
          /\ UNCHANGED scenarioVars
    \/ \E data \in GeneralTypes, raises \in BOOLEAN : PublishBroadcast(data, raises)
          /\ UNCHANGED scenarioVars
    \/ \E id \in Sockets, orderId \in StatusOrderIds :
          GetOrderStatus(id, orderId) /\ UNCHANGED <<routeVars, log, loop>>
    \/ \E query \in statusQueries, rejects \in BOOLEAN :
          OrderStatusEvaluated(query, rejects) /\ UNCHANGED <<routeVars, log, loop>>
    \/ \E query \in statusQueries :
          OrderStatusQueried(query) /\ UNCHANGED <<routeVars, log, loop>>

SpecNeverSubscribed == Init /\ [][NextNeverSubscribed]_vars

\* ------------------------------------------------- update-order requests
\* The update-order requests of an admin, several in flight at a time, for the
\* stored order "1" and the order "2" that has no document, and the events of
\* the sockets about the stored order, 'get-order-status' among them, with
\* MaxRouteSockets connections made; broadcastOrderUpdate is called by the
\* route only.
NextUpdateOrder ==
    \/ nextId <= MaxRouteSockets /\ Connect /\ UNCHANGED scenarioVars
    \/ \E id \in Sockets, value \in AskedOrderIds : Subscribe(id, value)
          /\ UNCHANGED scenarioVars
    \/ \E id \in Sockets, value \in AskedOrderIds : Unsubscribe(id, value)
          /\ UNCHANGED scenarioVars
    \/ \E id \in Sockets : Disconnect(id)
          /\ UNCHANGED scenarioVars
    \/ \E r \in RequestIds, orderId \in BroadcastOrderIds, status \in RequestStatuses :
          UpdateOrderReceive(r, orderId, status) /\ UNCHANGED socketVars
    \/ \E r \in RequestIds, rejects \in BOOLEAN :
          UpdateOrderEvaluated(r, rejects) /\ UNCHANGED socketVars
    \/ \E r \in RequestIds : UpdateOrderQueried(r) /\ UNCHANGED socketVars
    \/ \E r \in RequestIds : UpdateOrderWritten(r) /\ UNCHANGED socketVars
    \/ \E r \in RequestIds : UpdateOrderUpdateFails(r) /\ UNCHANGED socketVars
    \/ \E r \in RequestIds, fault \in Faults, hasEmail \in BOOLEAN, hasAddress \in BOOLEAN :
          UpdateOrderBroadcast(r, fault, hasEmail, hasAddress) /\ UNCHANGED socketVars
    \/ \E r \in RequestIds, rejects \in BOOLEAN :
          UpdateOrderNotified(r, rejects) /\ UNCHANGED socketVars
    \/ \E id \in Sockets, orderId \in AskedOrderIds :
          GetOrderStatus(id, orderId) /\ UNCHANGED <<routeVars, log, loop>>
    \/ \E query \in statusQueries, rejects \in BOOLEAN :
          OrderStatusEvaluated(query, rejects) /\ UNCHANGED <<routeVars, log, loop>>
    \/ \E query \in statusQueries :
          OrderStatusQueried(query) /\ UNCHANGED <<routeVars, log, loop>>

SpecUpdateOrder == Init /\ [][NextUpdateOrder]_vars

\* --------------------------------------------------- after a reconnection
\* The state after a client's first connection s1 has subscribed to the order
\* "1" and has been closed, and what can follow as long as the client's next
\* connection s2 does not subscribe to the order "1": the events of the
\* sockets, 'get-order-status' among them, and the calls of the two broadcast
\* functions.
InitAfterDisconnect ==
    /\ connected = {}
    /\ nextId = 2
    /\ nextRef = 0
    /\ orderClients = DisconnectOrderClients(
                          SubscribeOrderClients(EmptyMap, Order1, "s1"),
                          SubscribeClientOrders(EmptyMap, Order1, "s1"), "s1")
    /\ clientOrders = DisconnectClientOrders(
                          SubscribeClientOrders(EmptyMap, Order1, "s1"), "s1")
    /\ rooms = {}
    /\ emitted = Nothing
    /\ published = 0
    /\ call = [op |-> "disconnect", id |-> "s1"]
    /\ outcome = "returned"
    /\ request = NoRequests
    /\ statusQueries = {}
    /\ deliveries = StoredDeliveries
    /\ log = Nothing
    /\ loop = NoLoop

NextUntilSubscribe ==
    \/ Connect /\ UNCHANGED scenarioVars
    \/ \E id \in Sockets, value \in Primitives :
          /\ <<id, value>> # <<"s2", Order1>>
          /\ Subscribe(id, value)
          /\ UNCHANGED scenarioVars
    \/ \E id \in Sockets, value \in Primitives : Unsubscribe(id, value)
          /\ UNCHANGED scenarioVars
    \/ \E id \in Sockets : Disconnect(id)
          /\ UNCHANGED scenarioVars
    \/ \E orderId \in BroadcastOrderIds, fault \in Faults :
          Publish(orderId, NoOrderId, fault)
          /\ UNCHANGED scenarioVars
    \/ \E data \in GeneralTypes, raises \in BOOLEAN : PublishBroadcast(data, raises)
          /\ UNCHANGED scenarioVars
    \/ \E id \in Sockets, orderId \in StatusOrderIds :
          GetOrderStatus(id, orderId) /\ UNCHANGED <<routeVars, log, loop>>
    \/ \E query \in statusQueries, rejects \in BOOLEAN :
          OrderStatusEvaluated(query, rejects) /\ UNCHANGED <<routeVars, log, loop>>
    \/ \E query \in statusQueries :
          OrderStatusQueried(query) /\ UNCHANGED <<routeVars, log, loop>>

SpecAfterDisconnect == InitAfterDisconnect /\ [][NextUntilSubscribe]_vars

\* ------------------------------------------ while a socket stays subscribed
\* The payload of an 'order-update': the order it names and the number of the
\* call that made it.
Payload(msg) == [orderId |-> msg.orderId, data |-> msg.data]

\* The payloads of the 'order-update' messages of one step, per connection.
OrderUpdatePayloads(em) ==
    [h \in Sockets |->
        [i \in DOMAIN SelectSeq(em[h], LAMBDA msg : msg.event = "order-update") |->
            Payload(SelectSeq(em[h], LAMBDA msg : msg.event = "order-update")[i])]]

\* Faulty variant, for sensitivity of the properties: what a call writes overtakes what the calls before it wrote.
WrittenFirst(lg, em) == [h \in Sockets |-> OrderUpdatePayloads(em)[h] \o lg[h]]

\* emit writes to a connection in the order of the emit calls: the
\* 'order-update' payloads of a step come after all that were written before.
Written(lg, em) == [h \in Sockets |-> lg[h] \o OrderUpdatePayloads(em)[h]]

\* The state after socket s1 has connected and subscribed to the order "1", and
\* what can follow as long as s1 neither unsubscribes from the order "1" nor
\* disconnects: the events of the sockets, 'get-order-status' among them, and
\* the calls of the two broadcast functions, broadcastOrderUpdate with an
\* updateData that has no key orderId, with the 'order-update' payloads
\* written to each connection kept in log.
InitWhileSubscribed ==
    /\ connected = {"s1"}
    /\ nextId = 2
    /\ nextRef = 0
    /\ orderClients = SubscribeOrderClients(EmptyMap, Order1, "s1")
    /\ clientOrders = SubscribeClientOrders(EmptyMap, Order1, "s1")
    /\ rooms = {<<"s1", "s1">>} \cup {<<"s1", RoomOf(Order1)>>}
    /\ emitted = EmitToSocket(Nothing, "s1",
                     [event |-> "subscription-confirmed", orderId |-> Order1])
    /\ published = 0
    /\ call = [op |-> "subscribe-to-order", id |-> "s1", orderId |-> Order1]
    /\ outcome = "returned"
    /\ request = NoRequests
    /\ statusQueries = {}
    /\ deliveries = StoredDeliveries
    /\ log = Nothing
    /\ loop = NoLoop

NextWhileSubscribed ==
    \/ Connect /\ UNCHANGED scenarioVars
    \/ \E id \in Sockets, value \in BroadcastOrderIds : Subscribe(id, value)
          /\ UNCHANGED scenarioVars
    \/ \E id \in Sockets, value \in BroadcastOrderIds :
          /\ <<id, value>> # <<"s1", Order1>>
          /\ Unsubscribe(id, value)
          /\ UNCHANGED scenarioVars
    \/ \E id \in Sockets \ {"s1"} : Disconnect(id)
          /\ UNCHANGED scenarioVars
    \/ \E orderId \in BroadcastOrderIds, fault \in Faults :
          Publish(orderId, NoOrderId, fault)
          /\ log' = Written(log, emitted')
          /\ UNCHANGED <<routeVars, loop, statusQueries>>
    \/ \E data \in GeneralTypes, raises \in BOOLEAN : PublishBroadcast(data, raises)
          /\ UNCHANGED scenarioVars
    \/ \E id \in Sockets, orderId \in AskedOrderIds :
          GetOrderStatus(id, orderId) /\ UNCHANGED <<routeVars, log, loop>>
    \/ \E query \in statusQueries, rejects \in BOOLEAN :
          OrderStatusEvaluated(query, rejects) /\ UNCHANGED <<routeVars, log, loop>>
    \/ \E query \in statusQueries :
          OrderStatusQueried(query) /\ UNCHANGED <<routeVars, log, loop>>

SpecWhileSubscribed == InitWhileSubscribed /\ [][NextWhileSubscribed]_vars

\* ------------------------------------- the 'disconnect' handler in steps
\* The handler's orderIds.forEach one visit at a time.  Node runs a handler to
\* its end before it starts another, so no other handler runs while the loop
\* does; the database evaluates an awaited query when it will.
InLoop == loop.pc = "forEach"

\* Faulty variant, for sensitivity of the properties: the forEach ends after its first visit.
LoopRestEmpty(orderIds, orderId) == {}

\* What the forEach has still to visit after the visit of orderId.
LoopRest(orderIds, orderId) == orderIds \ {orderId}

\* Socket.IO closes the connection and calls the handler, which runs up to the
\* forEach; without a clientOrders entry it is over at once.
DisconnectBegin(id) ==
    /\ ~InLoop
    /\ id \in connected
    /\ connected' = connected \ {id}
    /\ rooms' = {p \in rooms : p[1] # id}
    /\ emitted' = Nothing
    /\ call' = [op |-> "disconnect", id |-> id]
    /\ outcome' = "returned"
    /\ loop' = IF MapHas(clientOrders, id)
               THEN [pc |-> "forEach", id |-> id, orderIds |-> clientOrders[id], visits |-> 0]
               ELSE [pc |-> "done", id |-> id, orderIds |-> {}, visits |-> 0]
    /\ UNCHANGED <<nextId, nextRef, orderClients, clientOrders, published, request,
                   deliveries, log, statusQueries>>

\* One visit of the forEach callback.
DisconnectVisit ==
    /\ InLoop
    /\ \E orderId \in loop.orderIds :
          /\ orderClients' = UnsubscribeOrderClients(orderClients, orderId, loop.id)
          /\ loop' = [loop EXCEPT !.orderIds = LoopRest(@, orderId), !.visits = @ + 1]
    /\ UNCHANGED <<connected, nextId, nextRef, clientOrders, rooms, emitted, published,
                   call, outcome, request, deliveries, log, statusQueries>>

\* The forEach is over: clientOrders.delete(socket.id), and the handler returns.
DisconnectEnd ==
    /\ InLoop
    /\ loop.orderIds = {}
    /\ clientOrders' = DisconnectClientOrders(clientOrders, loop.id)
    /\ loop' = [loop EXCEPT !.pc = "done"]
    /\ UNCHANGED <<connected, nextId, nextRef, orderClients, rooms, emitted, published,
                   call, outcome, request, deliveries, log, statusQueries>>

NextDisconnectLoop ==
    \/ ~InLoop /\ Connect /\ UNCHANGED scenarioVars
    \/ \E id \in Sockets, value \in Primitives :
          ~InLoop /\ Subscribe(id, value) /\ UNCHANGED scenarioVars
    \/ \E id \in Sockets, value \in Primitives :
          ~InLoop /\ Unsubscribe(id, value) /\ UNCHANGED scenarioVars
    \/ \E orderId \in BroadcastOrderIds, fault \in Faults :
          ~InLoop /\ Publish(orderId, NoOrderId, fault) /\ UNCHANGED scenarioVars
    \/ \E data \in GeneralTypes, raises \in BOOLEAN :
          ~InLoop /\ PublishBroadcast(data, raises) /\ UNCHANGED scenarioVars
    \/ \E id \in Sockets : DisconnectBegin(id)
    \/ DisconnectVisit
    \/ DisconnectEnd
    \/ \E id \in Sockets, orderId \in AskedOrderIds :
          ~InLoop /\ GetOrderStatus(id, orderId) /\ UNCHANGED <<routeVars, log, loop>>
    \/ \E query \in statusQueries, rejects \in BOOLEAN :
          OrderStatusEvaluated(query, rejects) /\ UNCHANGED <<routeVars, log, loop>>
    \/ \E query \in statusQueries :
          ~InLoop /\ OrderStatusQueried(query) /\ UNCHANGED <<routeVars, log, loop>>

\* A handler that has started goes on to its next statement.
SpecDisconnectLoop ==
    /\ Init
    /\ [][NextDisconnectLoop]_vars
    /\ WF_vars(DisconnectVisit)
    /\ WF_vars(DisconnectEnd)

\* ------------------------------------------------- create-order requests
\* The create-order requests of the shop, several in flight at a time, and the
\* events of the sockets about the ids the shop makes, 'get-order-status'
\* among them, with MaxRouteSockets connections made; the broadcast functions
\* are called by the route only.
NextCreateOrder ==
    \/ nextId <= MaxRouteSockets /\ Connect /\ UNCHANGED scenarioVars
    \/ \E id \in Sockets, value \in CreateOrderIds : Subscribe(id, value)
          /\ UNCHANGED scenarioVars
    \/ \E id \in Sockets, value \in CreateOrderIds : Unsubscribe(id, value)
          /\ UNCHANGED scenarioVars
    \/ \E id \in Sockets : Disconnect(id)
          /\ UNCHANGED scenarioVars
    \/ \E r \in RequestIds, orderId \in CreateOrderIds, valid \in BOOLEAN :
          CreateOrderReceive(r, orderId, valid) /\ UNCHANGED socketVars
    \/ \E r \in RequestIds : CreateOrderAdded(r) /\ UNCHANGED socketVars
    \/ \E r \in RequestIds : CreateOrderAddFails(r) /\ UNCHANGED socketVars
    \/ \E r \in RequestIds, fault \in Faults, raises \in BOOLEAN :
          CreateOrderBroadcast(r, fault, raises) /\ UNCHANGED socketVars
    \/ \E id \in Sockets, orderId \in CreateOrderIds :
          GetOrderStatus(id, orderId) /\ UNCHANGED <<routeVars, log, loop>>
    \/ \E query \in statusQueries, rejects \in BOOLEAN :
          OrderStatusEvaluated(query, rejects) /\ UNCHANGED <<routeVars, log, loop>>
    \/ \E query \in statusQueries :
          OrderStatusQueried(query) /\ UNCHANGED <<routeVars, log, loop>>

SpecCreateOrder == Init /\ [][NextCreateOrder]_vars

\* ------------------------------------------ notify-user-delivery requests
\* The notify-user-delivery requests, several in flight at a time; the route
\* neither reads nor writes anything of the sockets.
NextNotify ==
    \/ \E r \in RequestIds, userId \in NotifyUserIds, status \in NotifyStatuses,
             idType \in DeliveryIdTypes :
          NotifyReceive(r, userId, status, idType) /\ UNCHANGED socketVars
    \/ \E r \in RequestIds, rejects \in BOOLEAN :
          NotifyUserAdded(r, rejects) /\ UNCHANGED socketVars
    \/ \E r \in RequestIds, rejects \in BOOLEAN :
          NotifyAdminAdded(r, rejects) /\ UNCHANGED socketVars

SpecNotify == Init /\ [][NextNotify]_vars

\* The health endpoints' field activeSubscriptions: orderClients.size.
ActiveSubscriptions(oc) == Cardinality(DOMAIN oc)

\* ================================================================= claims
InForward(oc, id, orderId) == MapHas(oc, orderId) /\ SetHas(oc[orderId], id)
InReverse(co, id, orderId) == MapHas(co, id) /\ orderId \in co[id]

IsOrderUpdate(msg) == msg.event = "order-update"
OrderUpdates(id) == SelectSeq(emitted[id], IsOrderUpdate)
OrderUpdatesTo(id) == Len(OrderUpdates(id))

Published == call.op = "broadcastOrderUpdate"

\* A socket whose connection has been closed.
Disconnected(id) == id \notin connected /\ \E i \in 1..(nextId - 1) : SocketIds[i] = id

\* A step of the database alone, which evaluates an awaited query or applies
\* an awaited write: no handler runs in it, and emitted, call and outcome stay
\* those of the step before.
DatabaseStep ==
    \/ \E query \in statusQueries, rejects \in BOOLEAN : OrderStatusEvaluated(query, rejects)
    \/ \E r \in RequestIds, rejects \in BOOLEAN : UpdateOrderEvaluated(r, rejects)
    \/ \E r \in RequestIds : UpdateOrderWritten(r)
    \/ \E r \in RequestIds : CreateOrderAdded(r)

\* A step in which a handler or a broadcast function runs.
ServerStep == ~DatabaseStep

\* C1: in every reachable state socket H is in orderClients[T] if and only if
\* T is in clientOrders[H], for all orders T and sockets H.
C1_IndicesConsistent ==
    \A id \in Sockets, orderId \in OrderIds :
        InForward(orderClients, id, orderId) <=> InReverse(clientOrders, id, orderId)

\* A socket that keeps another subscription has just unsubscribed from an order
\* that another socket is still subscribed to.
C1_Witness ==
    /\ call.op = "unsubscribe-from-order"
    /\ MapHas(clientOrders, call.id)
    /\ clientOrders[call.id] # {}
    /\ ~InForward(orderClients, call.id, call.orderId)
    /\ \E id \in Sockets : InForward(orderClients, id, call.orderId)

\* C2: in every reachable state orderClients holds no order whose subscriber
\* set is empty.
C2_NoEmptyTopic ==
    \A orderId \in DOMAIN orderClients : Len(orderClients[orderId]) > 0

\* A socket that had subscribed has just unsubscribed from its last order, and
\* the order is gone from orderClients.
C2_Witness ==
    /\ call.op = "unsubscribe-from-order"
    /\ MapHas(clientOrders, call.id)
    /\ clientOrders[call.id] = {}
    /\ ~MapHas(orderClients, call.orderId)

\* C3: a broadcastOrderUpdate call that returns has written exactly one
\* 'order-update' to every socket subscribed to the order, not zero and not two.
C3_ExactlyOneDelivery ==
    (Published /\ outcome = "returned") =>
        \A id \in Range(Subscribers(orderClients, call.orderId)) : OrderUpdatesTo(id) = 1

\* C4: while H is subscribed to T, SubscriberCount(T) >= 1 and every
\* broadcastOrderUpdate(T) writes an 'order-update' to H (the case where the
\* emit to H itself is the one that raises is left aside).
C4_DeliveredWhileSubscribed ==
    Published =>
        \A id \in Range(Subscribers(orderClients, call.orderId)) :
            /\ SubscriberCount(orderClients, call.orderId) >= 1
            /\ call.fault # id => OrderUpdatesTo(id) >= 1

\* C5: after s1 has unsubscribed from the order "1", and as long as it does not
\* subscribe to it again, no broadcastOrderUpdate("1") writes an 'order-update'
\* to s1; and the order, of which s1 was the last subscriber, has left
\* orderClients as long as nobody else subscribes to it.
C5_NoDeliveryAfterUnsubscribe ==
    /\ (Published /\ call.orderId = Order1) => OrderUpdatesTo("s1") = 0
    /\ ~InForward(orderClients, "s1", Order1)
    /\ MapHas(orderClients, Order1) => Len(orderClients[Order1]) > 0

\* C6: once the 'disconnect' handler of a socket has run to its end, the socket
\* is written no 'order-update' by any broadcast, whatever orders it had
\* subscribed to, it has no entry in clientOrders and is in no subscriber set,
\* so that SubscriberCount counts live subscribers only (0 for an order whose
\* only subscriber has disconnected).  (The answer of a 'get-order-status' it
\* sent before it closed is still emitted on it.)
C6_AfterDisconnect ==
    /\ \A id \in Sockets :
          (Disconnected(id) /\ ~(InLoop /\ loop.id = id)) =>
              /\ OrderUpdatesTo(id) = 0
              /\ ~MapHas(clientOrders, id)
              /\ \A orderId \in OrderIds : ~InForward(orderClients, id, orderId)
    /\ ~InLoop =>
          \A orderId \in OrderIds :
              SubscriberCount(orderClients, orderId) =
                  Cardinality({id \in connected : InForward(orderClients, id, orderId)})

\* s1 was subscribed to three orders, the order "1" among them, when it
\* disconnected (its handler's loop made three visits); a later broadcast for
\* the order "1" reaches s2, which is subscribed to it, and not s1, and an
\* order that only s1 had subscribed to has no subscriber left.
C6_Witness ==
    /\ Published
    /\ call.orderId = Order1
    /\ loop.pc = "done"
    /\ loop.id = "s1"
    /\ loop.visits = 3
    /\ Disconnected("s1")
    /\ InForward(orderClients, "s2", Order1)
    /\ OrderUpdatesTo("s2") > 0
    /\ OrderUpdatesTo("s1") = 0
    /\ \E orderId \in Primitives : SubscriberCount(orderClients, orderId) = 0

\* C7: broadcastOrderUpdate(T) writes an 'order-update' only to sockets that
\* are in orderClients[T] at the time of the call.
C7_OnlySubscribersReceive ==
    Published =>
        \A id \in Sockets :
            OrderUpdatesTo(id) > 0 => InForward(orderClients, id, call.orderId)

\* C8: all the 'order-update' messages of one broadcastOrderUpdate call, to
\* every recipient and by either method, carry the same timestamp.
C8_OneTimestampPerCall ==
    \A id1 \in Sockets, id2 \in Sockets :
        \A i \in DOMAIN OrderUpdates(id1), j \in DOMAIN OrderUpdates(id2) :
            OrderUpdates(id1)[i].timestamp = OrderUpdates(id2)[j].timestamp

\* C9: when the emit to one subscribed socket raises during
\* broadcastOrderUpdate(T), every other subscriber of T is still written the
\* 'order-update' and the call returns normally.
C9_FailureIsolated ==
    (Published /\ SetHas(Subscribers(orderClients, call.orderId), call.fault)) =>
        /\ outcome = "returned"
        /\ \A id \in Range(Subscribers(orderClients, call.orderId)) :
              id # call.fault => OrderUpdatesTo(id) >= 1

IsGeneralUpdate(msg) == msg.event = "general-update"
GeneralUpdates(id) == SelectSeq(emitted[id], IsGeneralUpdate)
PublishedGeneral == call.op = "broadcastGeneralUpdate"

\* C11: a broadcastGeneralUpdate call leaves orderClients and clientOrders as
\* they were and writes exactly one 'general-update' (and nothing else) to
\* every connected socket, subscribed to an order or not, and nothing to a
\* socket that is not connected.
C11_GeneralUpdateToAll ==
    [][ (ServerStep /\ call'.op = "broadcastGeneralUpdate") =>
          /\ orderClients' = orderClients
          /\ clientOrders' = clientOrders
          /\ \A id \in Sockets :
                /\ Len(emitted'[id]) = IF id \in connected THEN 1 ELSE 0
                /\ \A i \in DOMAIN emitted'[id] :
                      /\ IsGeneralUpdate(emitted'[id][i])
                      /\ emitted'[id][i].data = call'.data ]_vars

\* C12: every handler runs to completion before the next one starts, so each
\* step changes the two maps together: a pair (T,H) enters or leaves
\* orderClients in a step exactly when it enters or leaves clientOrders in that
\* step, and after the step it is in one exactly when it is in the other,
\* whatever the interleaving of the sockets' subscribe, unsubscribe and
\* disconnect events.
C12_AtomicUpdates ==
    [][ \A id \in Sockets, orderId \in OrderIds :
          /\ (InForward(orderClients', id, orderId) # InForward(orderClients, id, orderId))
                <=> (InReverse(clientOrders', id, orderId) # InReverse(clientOrders, id, orderId))
          /\ InForward(orderClients', id, orderId) <=> InReverse(clientOrders', id, orderId)
      ]_vars

\* Two sockets with overlapping orders: the socket that has just subscribed
\* shares the order with the other socket and holds a second order as well.
C12_Witness ==
    /\ call.op = "subscribe-to-order"
    /\ Len(Subscribers(orderClients, call.orderId)) = 2
    /\ Cardinality(clientOrders[call.id]) >= 2

\* C13: the 'subscribe-to-order' handler always returns with the socket in
\* orderClients[T], once, and T in clientOrders[H]; when the socket was already
\* subscribed to T the call leaves both maps exactly as they were.
C13_SubscribeIdempotent ==
    [][ call'.op = "subscribe-to-order" =>
          /\ outcome' = "returned"
          /\ InForward(orderClients', call'.id, call'.orderId)
          /\ InReverse(clientOrders', call'.id, call'.orderId)
          /\ Cardinality(Range(orderClients'[call'.orderId])) = Len(orderClients'[call'.orderId])
          /\ InForward(orderClients, call'.id, call'.orderId) =>
                /\ orderClients' = orderClients
                /\ clientOrders' = clientOrders ]_vars

\* C14: the 'unsubscribe-from-order' handler always returns, and when the
\* socket is not subscribed to the order (in neither map: a repeated
\* unsubscribe, an order nobody subscribed to, a socket that never subscribed)
\* it leaves orderClients and clientOrders exactly as they were.
C14_UnsubscribeIdempotent ==
    [][ call'.op = "unsubscribe-from-order" =>
          /\ outcome' = "returned"
          /\ ~InForward(orderClients', call'.id, call'.orderId)
          /\ ~InReverse(clientOrders', call'.id, call'.orderId)
          /\ (/\ ~InForward(orderClients, call'.id, call'.orderId)
              /\ ~InReverse(clientOrders, call'.id, call'.orderId)) =>
                /\ orderClients' = orderClients
                /\ clientOrders' = clientOrders ]_vars

\* C15: the 'disconnect' handler always returns; for a socket that has no
\* clientOrders entry (it never subscribed) it leaves orderClients and
\* clientOrders exactly as they were; and running the handler's cleanup a second
\* time for the same socket changes nothing after the first.
C15_DisconnectIdempotent ==
    [][ call'.op = "disconnect" =>
          /\ outcome' = "returned"
          /\ ~MapHas(clientOrders, call'.id) =>
                /\ orderClients' = orderClients
                /\ clientOrders' = clientOrders
          /\ DisconnectOrderClients(orderClients', clientOrders', call'.id) = orderClients'
          /\ DisconnectClientOrders(clientOrders', call'.id) = clientOrders' ]_vars

\* s1, which never subscribed, has just disconnected while s2 holds a
\* subscription.
C15_Witness ==
    /\ call.op = "disconnect"
    /\ call.id = "s1"
    /\ \E orderId \in OrderIds : InForward(orderClients, "s2", orderId)
    /\ MapHas(clientOrders, "s2")

\* C16: for every order T the number broadcastOrderUpdate logs (subs?.size ?? 0)
\* and the number the websocket test endpoint answers (?.size || 0) are each
\* the number of distinct sockets that are in orderClients[T]: no socket is
\* counted twice, and the number is 0 when orderClients has no entry for T.
C16_SubscriberCount ==
    \A orderId \in OrderIds :
        /\ SubscriberCount(orderClients, orderId) =
              Cardinality({id \in Sockets : InForward(orderClients, id, orderId)})
        /\ SubscribedClients(orderClients, orderId) =
              Cardinality({id \in Sockets : InForward(orderClients, id, orderId)})

\* A broadcast for an order with two subscribers has returned (its log line was
\* reached) while another order has no entry.
C16_Witness ==
    /\ Published
    /\ outcome = "returned"
    /\ SubscriberCount(orderClients, call.orderId) = 2
    /\ \E orderId \in BroadcastOrderIds :
          ~MapHas(orderClients, orderId) /\ SubscribedClients(orderClients, orderId) = 0

\* C17: in the update-order route an 'order-update' is broadcast only by the
\* step of a request that follows that request's document update: the delivery
\* document has been written by then, and the broadcast is for the request's
\* order.  No step of a request that is rejected (400, 404) or whose query or
\* update fails broadcasts anything.
C17_PublishAfterWrite ==
    [][ ServerStep =>
          /\ (\/ published' # published
              \/ \E id \in Sockets : \E i \in DOMAIN emitted'[id] :
                    IsOrderUpdate(emitted'[id][i]))
             => \E r \in RequestIds :
                   /\ request[r].pc = "written"
                   /\ request'[r] # request[r]
                   /\ MapHas(deliveries, request[r].orderId)
                   /\ deliveries[request[r].orderId] \in RequestStatuses \ {""}
                   /\ call'.op = "broadcastOrderUpdate"
                   /\ call'.orderId = request[r].orderId
          /\ \A r \in RequestIds :
                (/\ request'[r] # request[r]
                 /\ request'[r].pc = "done"
                 /\ request[r].pc \in {"none", "done", "queried", "update"})
                   => /\ request'[r].code \in {400, 404, 500}
                      /\ published' = published
                      /\ emitted' = Nothing ]_vars

\* Two requests for the order "1" at a time: the one that wrote "delivered"
\* first has made its broadcast, which reached a subscriber, and has been
\* answered 200, while the document holds what the other request wrote after it.
C17_Witness ==
    /\ Published
    /\ \E id \in Sockets : OrderUpdatesTo(id) > 0
    /\ \E r \in RequestIds, q \in RequestIds :
          /\ request[r].pc = "done"
          /\ request[r].code = 200
          /\ request[r].orderId = Order1
          /\ request[r].status = "delivered"
          /\ request[q].pc = "written"
          /\ request[q].orderId = Order1
          /\ deliveries[Order1] = request[q].status
          /\ request[q].status # "delivered"

\* C18: the connection s2, made after s1 (subscribed to the order "1") has been
\* closed, starts with no clientOrders entry and in no subscriber set, and as
\* long as it has not itself subscribed to the order "1" it is not in
\* orderClients["1"] and no broadcastOrderUpdate("1") writes an 'order-update'
\* to it.
C18_FreshHandle ==
    /\ (call.op = "connection" /\ call.id = "s2") =>
          /\ ~MapHas(clientOrders, "s2")
          /\ \A orderId \in OrderIds : ~InForward(orderClients, "s2", orderId)
    /\ ~InForward(orderClients, "s2", Order1)
    /\ (Published /\ call.orderId = Order1) => OrderUpdatesTo("s2") = 0

\* C20: the 'disconnect' handler's loop ends: once started it reaches the end of
\* the handler, having visited each of the socket's orders exactly once (the
\* visits made and the orders still to visit always add up to the socket's
\* orders), after which the socket has no clientOrders entry and is in no
\* subscriber set.  Every other operation is a single step without a loop over
\* anything but the finite Set it reads.
C20_Terminates ==
    /\ [](InLoop => loop.visits + Cardinality(loop.orderIds)
                       = Cardinality(clientOrders[loop.id]))
    /\ [](loop.pc = "done" =>
             /\ ~MapHas(clientOrders, loop.id)
             /\ \A orderId \in OrderIds : ~InForward(orderClients, loop.id, orderId))
    /\ (InLoop ~> loop.pc = "done")

\* The handler has ended after visiting the three orders of the socket.
C20_Witness ==
    /\ loop.pc = "done"
    /\ loop.visits = 3
    /\ orderClients # EmptyMap

\* C21: a 'subscribe-to-order' or 'unsubscribe-from-order' of socket H for order
\* T changes the membership of the pair (T,H) only: every other pair is in
\* orderClients after the handler exactly when it was before, and in
\* clientOrders after exactly when it was before.
C21_SubscribeFrame ==
    [][ call'.op \in {"subscribe-to-order", "unsubscribe-from-order"} =>
          \A id \in Sockets, orderId \in OrderIds :
              <<id, orderId>> # <<call'.id, call'.orderId>> =>
                  /\ InForward(orderClients', id, orderId) <=> InForward(orderClients, id, orderId)
                  /\ InReverse(clientOrders', id, orderId) <=> InReverse(clientOrders, id, orderId)
      ]_vars

\* A socket has just subscribed to an order while the other socket holds a
\* different order and it holds a second one itself.
C21_Witness ==
    /\ call.op = "subscribe-to-order"
    /\ \E id \in Sockets \ {call.id}, orderId \in OrderIds \ {call.orderId} :
          /\ InForward(orderClients, id, orderId)
          /\ ~InForward(orderClients, id, call.orderId)
    /\ \E orderId \in OrderIds \ {call.orderId} : InReverse(clientOrders, call.id, orderId)

\* C22: the 'disconnect' handler of socket H takes H out of every subscriber
\* set, leaves no empty set behind, deletes clientOrders[H], and leaves every
\* other socket's pairs in both maps as they were.
C22_DisconnectFrame ==
    [][ call'.op = "disconnect" =>
          /\ \A orderId \in OrderIds : ~InForward(orderClients', call'.id, orderId)
          /\ ~MapHas(clientOrders', call'.id)
          /\ \A orderId \in DOMAIN orderClients' : Len(orderClients'[orderId]) > 0
          /\ \A id \in Sockets \ {call'.id}, orderId \in OrderIds :
                /\ InForward(orderClients', id, orderId) <=> InForward(orderClients, id, orderId)
                /\ InReverse(clientOrders', id, orderId) <=> InReverse(clientOrders, id, orderId)
      ]_vars

\* s1 has just disconnected and s2 still is subscribed to two orders.
C22_Witness ==
    /\ call.op = "disconnect"
    /\ call.id = "s1"
    /\ "s2" \in connected
    /\ Cardinality({orderId \in OrderIds : InForward(orderClients, "s2", orderId)}) = 2
    /\ Cardinality(DOMAIN orderClients) = 2

\* C23: in the create-order route the broadcast functions are called only by
\* the step of a request that follows the storing of its delivery document,
\* which is also the step that answers; a request answered 200 has called
\* broadcastOrderUpdate once and then broadcastGeneralUpdate once, with the
\* document stored; a request answered 400, or whose add is rejected, has
\* called neither and nothing was written to any socket.
C23_CreateOrderBroadcasts ==
    [][ ServerStep =>
          /\ (\/ published' # published
              \/ \E id \in Sockets : \E i \in DOMAIN emitted'[id] :
                    IsOrderUpdate(emitted'[id][i]) \/ IsGeneralUpdate(emitted'[id][i]))
             => \E r \in RequestIds :
                   /\ request[r].pc = "added"
                   /\ MapHas(deliveries, request[r].orderId)
                   /\ request'[r].pc = "done"
                   /\ call'.orderId = request[r].orderId
                   /\ published' = published + 1
          /\ \A r \in RequestIds :
                (request'[r].pc = "done" /\ request'[r] # request[r]) =>
                   /\ request'[r].code = 200 =>
                         /\ request[r].pc = "added"
                         /\ request'[r].called
                               = <<"broadcastOrderUpdate", "broadcastGeneralUpdate">>
                         /\ MapHas(deliveries', request'[r].orderId)
                         /\ \A id \in connected :
                               Len(SelectSeq(emitted'[id], IsGeneralUpdate)) = 1
                   /\ request'[r].code = 400 =>
                         /\ request'[r].called = <<>>
                         /\ emitted' = Nothing
                         /\ published' = published
                   /\ request[r].pc = "add" =>
                         /\ request'[r].called = <<>>
                         /\ request'[r].code = 500
                         /\ emitted' = Nothing
                         /\ published' = published
      ]_vars

\* A create-order request has been answered 200 after its 'order-update' and
\* then its 'general-update' reached the connected socket, which is subscribed
\* to the new order, while another request that made the same id is still in
\* flight.
C23_Witness ==
    /\ call.op = "create-order"
    /\ connected # {}
    /\ \A id \in connected :
          /\ OrderUpdatesTo(id) > 0
          /\ Len(GeneralUpdates(id)) = 1
          /\ IsGeneralUpdate(emitted[id][Len(emitted[id])])
    /\ \E r \in RequestIds, q \in RequestIds :
          /\ request[r].pc = "done"
          /\ request[r].code = 200
          /\ request[r].orderId = call.orderId
          /\ MapHas(deliveries, request[r].orderId)
          /\ InFlight(request[q])
          /\ request[q].orderId = request[r].orderId

\* C24: a notify-user-delivery request that has been answered, none of whose
\* adds was rejected by the database: without userId or status it was answered
\* 400 and added no record; with both it added exactly one user notification,
\* and an admin notification exactly when the status is 'delivered' or 'failed'.
C24_NotifyRecords ==
    \A r \in RequestIds :
        (request[r].pc = "done" /\ ~request[r].rejected) =>
            IF request[r].userId = "" \/ request[r].status = ""
            THEN request[r].code = 400 /\ request[r].persisted = <<>>
            ELSE /\ Len(SelectSeq(request[r].persisted, LAMBDA c : c = "user_notifications")) = 1
                 /\ Len(SelectSeq(request[r].persisted, LAMBDA c : c = "admin_notifications"))
                       = IF ShouldNotifyAdmin(request[r].status) THEN 1 ELSE 0

\* The connected sockets that are in the room of an order.
RoomMembers(orderId) == {id \in connected : <<id, RoomOf(orderId)>> \in rooms}

\* C25: in every reachable state, for every order T the connected sockets in
\* the room `order-T` are exactly the sockets in orderClients[T] (none when
\* orderClients has no entry for T).
C25_RoomIsForwardIndex ==
    \A orderId \in OrderIds :
        RoomMembers(orderId) = Range(Subscribers(orderClients, orderId))

\* C26: 'unsubscribe-from-order' neither deletes nor creates a clientOrders
\* entry, and an entry, once made by the socket's first subscribe, stays (empty
\* after the last unsubscribe) for as long as the socket is connected.
C26_ReverseEntryKept ==
    [][ /\ call'.op = "unsubscribe-from-order" =>
              (MapHas(clientOrders', call'.id) <=> MapHas(clientOrders, call'.id))
        /\ \A id \in Sockets :
              (MapHas(clientOrders, id) /\ id \in connected') => MapHas(clientOrders', id)
      ]_vars

\* A socket has just unsubscribed from its last order and keeps an empty
\* entry, while the other socket, which never subscribed, has none.
C26_Witness ==
    /\ call.op = "unsubscribe-from-order"
    /\ MapHas(clientOrders, call.id)
    /\ clientOrders[call.id] = {}
    /\ \E id \in connected : ~MapHas(clientOrders, id)

\* C27: a call broadcastOrderUpdate(T, ...) leaves orderClients and
\* clientOrders as they were, and so does reading the subscriber count of T;
\* when orderClients has no entry for T the call creates none and returns
\* without raising.
C27_PublishReadsOnly ==
    [][ call'.op = "broadcastOrderUpdate" =>
          /\ orderClients' = orderClients
          /\ clientOrders' = clientOrders
          /\ SubscriberCount(orderClients', call'.orderId)
                = SubscriberCount(orderClients, call'.orderId)
          /\ ~MapHas(orderClients, call'.orderId) =>
                /\ ~MapHas(orderClients', call'.orderId)
                /\ outcome' = "returned"
      ]_vars

\* C28: in update-order the customer notification is persisted only after the
\* broadcast has been made: a request awaits that write only from the step in
\* which its broadcastOrderUpdate returned, having written the update to every
\* subscriber of the order, after the step in which the request wrote the new
\* status to the document.  The answer to that write, 200 or 500, sends nothing
\* more to any socket and takes no broadcast back, and when the answer is 500
\* the document holds the status the request has written.
C28_BroadcastBeforeNotification ==
    [][ /\ \A r \in RequestIds :
              (request'[r].pc = "written" /\ request[r] # request'[r]) =>
                 /\ request[r].pc = "update"
                 /\ deliveries'[request[r].orderId] = request[r].status
        /\ ServerStep =>
          \A r \in RequestIds :
             /\ (request'[r].pc = "notify" /\ request[r] # request'[r]) =>
                   /\ request[r].pc = "written"
                   /\ call'.op = "broadcastOrderUpdate"
                   /\ call'.orderId = request[r].orderId
                   /\ outcome' = "returned"
                   /\ published' = published + 1
                   /\ deliveries' = deliveries
                   /\ \A id \in Range(Subscribers(orderClients, request[r].orderId)) :
                         Len(SelectSeq(emitted'[id], IsOrderUpdate)) >= 1
             /\ (request[r].pc = "notify" /\ request[r] # request'[r]) =>
                   /\ request'[r].pc = "done"
                   /\ request'[r].code \in {200, 500}
                   /\ published' = published
                   /\ emitted' = Nothing
                   /\ deliveries' = deliveries
                   /\ request'[r].code = 500 =>
                         deliveries'[request[r].orderId] = request[r].status
      ]_vars

\* C29: 'subscription-confirmed' is written to the subscribing socket only, and
\* when it is written both maps hold the pair; and every
\* broadcastOrderUpdate(T) made while a confirmed socket H is still subscribed
\* to T writes an 'order-update' to H (the case where the emit to H itself is
\* the one that raises is left aside).
C29_ConfirmedThenDelivered ==
    /\ \A id \in Sockets : \A i \in DOMAIN emitted[id] :
          emitted[id][i].event = "subscription-confirmed" =>
              /\ call.op = "subscribe-to-order"
              /\ call.id = id
              /\ emitted[id][i].orderId = call.orderId
              /\ InForward(orderClients, id, call.orderId)
              /\ InReverse(clientOrders, id, call.orderId)
    /\ Published =>
          \A id \in Sockets :
              (InForward(orderClients, id, call.orderId) /\ call.fault # id)
                  => Len(SelectSeq(emitted[id], IsOrderUpdate)) >= 1

\* C30: in every reachable state the activeSubscriptions value of the health
\* endpoints, the size of orderClients, is the number of orders that have at
\* least one subscribed socket.
C30_ActiveSubscriptions ==
    ActiveSubscriptions(orderClients) =
        Cardinality({orderId \in OrderIds :
                        \E id \in Sockets : InForward(orderClients, id, orderId)})

\* An order has just lost its last subscriber while another order is followed
\* by two sockets: the health endpoints report one active subscription.
C30_Witness ==
    /\ call.op = "unsubscribe-from-order"
    /\ ~MapHas(orderClients, call.orderId)
    /\ ActiveSubscriptions(orderClients) = 1
    /\ \E orderId \in OrderIds : SubscriberCount(orderClients, orderId) = 2
====
